---- MODULE Spec2Model ----
(***************************************************************************)
(* Model of neat-fetch (src/index.ts): the NeatFetch request builder, its  *)
(* memoized execution, the retry / timeout state machine of                *)
(* executeWithRetry, the result decoders and the HTTP verb shortcuts.      *)
(*                                                                         *)
(* One record per NeatFetch instance.  The transport (fetchFn), the timers *)
(* (setTimeout) and the caller's AbortSignal are the environment: their    *)
(* steps are separate actions that interleave with the program's           *)
(* continuations, as on the JavaScript event loop.                         *)
(***************************************************************************)
EXTENDS Integers, Sequences, FiniteSets, TLC

\* ---------------------------------------------------------------- bounds
MaxRetry == 2        \* largest configured retry count explored
MaxBackoffs == 3     \* largest retry count explored where only the waits matter
RootRetryDelay == 500  \* the retry delay configured where one is configured
RetryAfterDateMs == 1500  \* distance from now of the Retry-After dates explored
MaxInst == 2         \* instances alive at once: the root and the verb-made ones
MaxConsume == 2      \* consumptions (then, json, ...) issued on the root
TimeoutMs == 50      \* the positive timeout explored (0 stands for "not set")
RetryAfterSec == 2   \* the positive Retry-After value explored

\* ------------------------------------------------------------- constants
DefaultRetryDelay == 1000

Root == 1

\* ----------------------------------------------------------------- values
Null == [kind |-> "null"]

NoRA == [kind |-> "absent"]
RASec(n) == [kind |-> "seconds", n |-> n]
\* an HTTP date, delta ms from now (negative: in the past)
RADate(delta) == [kind |-> "date", delta |-> delta]
\* neither a number nor a date
RAOther == [kind |-> "other"]

\* Response.statusText: the reason phrase that goes with the status
StatusText(status) ==
  CASE status = 200 -> "OK" [] status = 204 -> "No Content"
    [] status = 304 -> "Not Modified" [] status = 404 -> "Not Found"
    [] status = 429 -> "Too Many Requests"
    [] status = 500 -> "Internal Server Error"
    [] OTHER -> ""

Resp(status, ra, cl0, body) ==
  [kind |-> "response", status |-> status, statusText |-> StatusText(status),
   ra |-> ra, cl0 |-> cl0, body |-> body]

\* What the transport may answer.  body: "null" (no body at all), "empty"
\* (zero bytes), "good" (decodes), "jsonnull" (the JSON text null), "bad"
\* (malformed for a structured decoder).
Responses ==
  { Resp(200, NoRA, FALSE, "good"), Resp(200, NoRA, FALSE, "bad"),
    Resp(200, NoRA, FALSE, "jsonnull"), Resp(200, NoRA, TRUE, "empty"),
    Resp(204, NoRA, FALSE, "null"), Resp(304, NoRA, FALSE, "null"),
    Resp(404, NoRA, FALSE, "good"),
    Resp(429, NoRA, FALSE, "good"), Resp(429, RASec(0), FALSE, "good"),
    Resp(429, RASec(RetryAfterSec), FALSE, "good"),
    Resp(500, NoRA, FALSE, "bad") }

\* Response.ok of the transport's response: status in the range 200-299.
ok(resp) == resp.status >= 200 /\ resp.status <= 299

\* new Error(`HTTP ${status}: ${statusText}`) with response/status/url attached
\* faulty variant of the HTTP error: the request URL is not attached
HttpErrorWithoutUrl(resp, url) ==
  [kind |-> "error", name |-> "Error", response |-> resp,
   status |-> resp.status, statusText |-> resp.statusText]

\* error.response = response.clone(), error.status, error.statusText,
\* error.url = this.finalUrl
HttpError(resp, url) ==
  [kind |-> "error", name |-> "Error", response |-> resp,
   status |-> resp.status, statusText |-> resp.statusText, url |-> url]

\* an error thrown by the transport or by a body reader: no status fields
PlainError(name) == [kind |-> "error", name |-> name]

Tuple(value, error) == [value |-> value, error |-> error]

\* ---------------------------------------------------------------- headers
NoHeaders == [k \in {} |-> ""]

Lower(k) ==
  CASE k = "Authorization" -> "authorization"
    [] k = "Content-Type" -> "content-type"
    [] OTHER -> k

RichHeaders ==
  [k \in {"Authorization", "content-type"} |->
      IF k = "Authorization" THEN "Bearer t" ELSE "text/plain"]

\* Header mappings a caller may configure (no two keys equal up to case).
HeaderChoices ==
  { NoHeaders, [k \in {"Content-Type"} |-> "text/plain"], RichHeaders }

\* normalizeHeaders(headers): every key lower-cased, a later entry replacing
\* an earlier one of the same lower-cased name.  The only mappings with two
\* keys equal up to case are those headers() builds, where the receiver's
\* lower-case keys come first and the argument's keys after them.
normalizeHeaders(hs) ==
  [k \in {Lower(h) : h \in DOMAIN hs} |->
      hs[CHOOSE h \in DOMAIN hs :
           /\ Lower(h) = k
           /\ h = k => \A g \in DOMAIN hs : Lower(g) = k => g = k]]

\* ------------------------------------------------------------------- params
\* A query value is a scalar, an array of scalars, or null / undefined.
Scalar(v) == [kind |-> "scalar", v |-> v]
Array(vs) == [kind |-> "array", vs |-> vs]

NoParams == [k \in {} |-> Null]

\* -------------------------------------------------------------------- URLs
\* A URL string is a sequence of tokens: an origin ("https://api.test"), the
\* separator "/", a path segment, or one of "?", "=", "&" with the keys and
\* values of a query.
Slash == "/"
Origins == {"https://api.test", "http://localhost"}
NoUrl == << >>
UsersUrl == <<"https://api.test", Slash, "users">>

\* new URL(u) succeeds: u is absolute
IsAbsolute(u) == Len(u) > 0 /\ u[1] \in Origins

\* faulty variant of the base's trimming: every trailing slash is removed
RECURSIVE StripAllTrailingSlashes(_)
StripAllTrailingSlashes(u) ==
  IF Len(u) > 0 /\ u[Len(u)] = Slash
  THEN StripAllTrailingSlashes(SubSeq(u, 1, Len(u) - 1))
  ELSE u

\* baseURL.replace(/\/$/, "")
StripTrailingSlash(u) ==
  IF Len(u) > 0 /\ u[Len(u)] = Slash THEN SubSeq(u, 1, Len(u) - 1) ELSE u

\* url.replace(/^\//, "")
StripLeadingSlash(u) ==
  IF Len(u) > 0 /\ u[1] = Slash THEN Tail(u) ELSE u

\* new URL(u).toString() of an absolute u: a bare origin gets the path "/"
Href(u) == IF Len(u) = 1 THEN u \o <<Slash>> ELSE u

\* new URL(u, "http://localhost").toString() of a relative u: a u that
\* starts with two slashes names its own host and takes only the scheme
Resolve(u) ==
  IF Len(u) > 2 /\ u[1] = Slash /\ u[2] = Slash
  THEN <<"http:">> \o u \o (IF Len(u) = 3 THEN <<Slash>> ELSE << >>)
  ELSE IF Len(u) > 0 /\ u[1] = Slash THEN <<"http://localhost">> \o u
  ELSE <<"http://localhost", Slash>> \o u

\* The keys a params object may hold, in the order Object.entries lists them:
\* every mapping of the model has its keys inserted in this order.
ParamKeys == <<"page", "tag", "q">>

\* value.forEach((v) => searchParams.append(key, String(v)))
RECURSIVE AppendEach(_, _, _)
AppendEach(search, key, vs) ==
  IF vs = << >> THEN search
  ELSE AppendEach(Append(search, <<key, Head(vs)>>), key, Tail(vs))

\* Object.entries(this.params).forEach(...) from the n-th key on: null /
\* undefined skipped, an array appended element by element, a scalar once
RECURSIVE AppendEntries(_, _, _)
AppendEntries(search, params, n) ==
  IF n > Len(ParamKeys) THEN search
  ELSE LET key == ParamKeys[n]
       IN  IF key \notin DOMAIN params \/ params[key] = Null
           THEN AppendEntries(search, params, n + 1)
           ELSE IF params[key].kind = "array"
           THEN AppendEntries(AppendEach(search, key, params[key].vs), params, n + 1)
           ELSE AppendEntries(Append(search, <<key, params[key].v>>), params, n + 1)

\* the pairs appended to urlInstance.searchParams
SearchOf(params) == AppendEntries(<< >>, params, 1)

\* the serialized query: key=value pairs joined by "&"
RECURSIVE QueryString(_)
QueryString(search) ==
  IF search = << >> THEN << >>
  ELSE <<Head(search)[1], "=", Head(search)[2]>>
       \o (IF Tail(search) = << >> THEN << >>
           ELSE <<"&">> \o QueryString(Tail(search)))

\* urlInstance.toString(): the query follows "?", or "&" when the URL
\* already had one
UrlToString(href, search) ==
  IF search = << >> THEN href
  ELSE href \o (IF \E n \in 1..Len(href) : href[n] = "?" THEN <<"&">> ELSE <<"?">>)
            \o QueryString(search)

\* NeatFetch.buildUrl()
buildUrl(url, baseURL, params) ==
  LET target == IF baseURL # NoUrl /\ ~IsAbsolute(url)
                THEN StripTrailingSlash(baseURL) \o <<Slash>> \o StripLeadingSlash(url)
                ELSE url
  IN  UrlToString(IF IsAbsolute(target) THEN Href(target) ELSE Resolve(target),
                  SearchOf(params))

\* -------------------------------------------------------------- operations
RawOps == {"then", "catch", "finally"}
DecodeOps == {"json", "text", "blob", "arrayBuffer", "formData", "stream"}
ConsumeOps == RawOps \cup DecodeOps
JsonVerbs == {"get", "post", "put", "patch"}
BodyVerbs == {"post", "put", "patch"}
RawVerbs == {"delete", "head", "options"}
Verbs == JsonVerbs \cup RawVerbs
FromResponseOps == {"json", "text", "blob", "arrayBuffer", "formData"}
Payloads == {"null", "string", "formData", "object"}
\* data instanceof FormData / Blob / ArrayBuffer / URLSearchParams
BodyInitKinds == {"formData", "blob", "arrayBuffer", "urlSearchParams"}
AllPayloads == Payloads \cup BodyInitKinds

VARIABLES
  inst,            \* sequence of NeatFetch instances, inst[Root] made by neatFetch()
  callerAborted,   \* the caller's AbortSignal (options.signal) has been aborted
  transportHangs,  \* the transport never settles unless its signal is aborted
  lastResult       \* the tuple the latest terminal operation resolved to

vars == <<inst, callerAborted, transportHangs, lastResult>>

Insts == 1..Len(inst)

\* ------------------------------------------------------------- constructor
\* FetchOptions handed to neatFetch(url, options) / new NeatFetch(url, options).
\* timeout 0 stands for an absent timeout, signal for a caller-supplied
\* AbortSignal, absent headers for the empty mapping.  retryDelay, baseURL,
\* params and fetchFn start absent (0, the empty URL, the empty mapping,
\* "absent"); the mutators and the configured factory set them.
Options(method, body, headers, timeout, retry, signal) ==
  [method |-> method, body |-> body, headers |-> headers,
   timeout |-> timeout, retry |-> retry, signal |-> signal,
   retryDelay |-> 0, baseURL |-> NoUrl, params |-> NoParams,
   fetchFn |-> "absent"]

\* const { params, timeout, retry, retryDelay, baseURL, ...requestInit } = options
requestInitOf(options) ==
  [method |-> options.method, body |-> options.body,
   headers |-> options.headers, signal |-> options.signal]

NoOutcome == [kind |-> "none"]
NoOrigin == [parent |-> 0, verb |-> "none", data |-> "null"]
NoRequest == [method |-> "none"]

\* new NeatFetch(url, options)
NeatFetch(url, options, origin) ==
  [url |-> url,
   fetchFn |-> IF options.fetchFn = "absent" THEN "globalThis.fetch"
               ELSE options.fetchFn,        \* options.fetchFn ?? globalThis.fetch
   fetchOptions |-> options,
   headersObj |-> normalizeHeaders(options.headers),
   params |-> options.params,
   timeoutMs |-> options.timeout,
   retryCount |-> options.retry,            \* options.retry || 0
   retryDelayMs |-> IF options.retryDelay # 0 THEN options.retryDelay
                    ELSE DefaultRetryDelay, \* options.retryDelay || 1000
   finalUrl |-> buildUrl(url, options.baseURL, options.params),
   requestInit |-> requestInitOf(options),
   executionPromise |-> "unset",      \* "unset", "pending", "fulfilled"
   result |-> Tuple(Null, Null),      \* what executionPromise resolved to
   phase |-> "idle",                  \* "idle","fetching","retryAfter","backoff","done"
   attempt |-> 0,                     \* the attempt parameter of executeWithRetry
   execs |-> 0,                       \* executeWithRetry() runs started by execute()
   calls |-> 0,                       \* invocations of fetchFn
   timer |-> "off",                   \* this attempt's timeoutId: "off","armed","fired","cleared"
   stale |-> 0,                       \* timers of earlier attempts still armed
   ctrlAborted |-> FALSE,             \* this attempt's controller.signal.aborted
   sent |-> NoRequest,                \* arguments of the latest fetchFn call
   last |-> NoOutcome,                \* how the latest attempt settled
   wait |-> 0,                        \* ms of the sleep in progress
   backoffs |-> << >>,                \* the backoff sleeps begun, in order
   inflight |-> 0,                    \* fetchFn calls that have not settled
   slept |-> << >>,                   \* sleeps that ended since the latest attempt settled
   bodyUsed |-> FALSE,                \* the success response's body was read
   cloneUsed |-> FALSE,               \* the body of error.response was read
   waiting |-> {},                    \* operations awaiting executionPromise
   consumed |-> 0,                    \* consumptions issued by the caller
   origin |-> origin]

\* --------------------------------------------------------- executeWithRetry
\* The signal handed to the transport: this.requestInit.signal || controller.signal
SignalOf(r) == IF r.requestInit.signal THEN "caller" ELSE "controller"

SignalAborted(r) ==
  IF SignalOf(r) = "caller" THEN callerAborted ELSE r.ctrlAborted

\* faulty variant of the attempt: a retry is sent with a header of its own
StartAttemptMarkingRetry(r, k) ==
  [r EXCEPT !.phase = "fetching",
            !.attempt = k,
            !.ctrlAborted = FALSE,
            !.stale = IF r.timer = "armed" THEN @ + 1 ELSE @,
            !.timer = IF r.timeoutMs # 0 THEN "armed" ELSE "off",
            !.calls = @ + 1,
            !.inflight = @ + 1,
            !.slept = << >>,
            !.wait = 0,
            !.sent = [fetchFn |-> r.fetchFn,
                      url |-> r.finalUrl,
                      method |-> r.requestInit.method,
                      body |-> r.requestInit.body,
                      headers |-> IF k = 0 THEN r.requestInit.headers
                                  ELSE [h \in {"x-retry"} |-> "1"],
                      signal |-> SignalOf(r)]]

\* executeWithRetry(k) up to its await of fetchFn: a fresh controller, the
\* timeout armed when timeoutMs is truthy, the transport invoked.
StartAttempt(r, k) ==
  [r EXCEPT !.phase = "fetching",
            !.attempt = k,
            !.ctrlAborted = FALSE,
            !.stale = IF r.timer = "armed" THEN @ + 1 ELSE @,
            !.timer = IF r.timeoutMs # 0 THEN "armed" ELSE "off",
            !.calls = @ + 1,
            !.inflight = @ + 1,
            !.slept = << >>,
            !.wait = 0,
            !.sent = [fetchFn |-> r.fetchFn,
                      url |-> r.finalUrl,
                      method |-> r.requestInit.method,
                      body |-> r.requestInit.body,
                      headers |-> r.requestInit.headers,
                      signal |-> SignalOf(r)]]

\* faulty variant of the return: once an attempt has failed the execution
\* cannot end in success, the failure of an earlier attempt is returned
FinishKeepingFailure(r, res) ==
  [r EXCEPT !.phase = "done", !.executionPromise = "fulfilled",
            !.result = IF r.backoffs # << >> /\ res.error = Null
                       THEN Tuple(Null, PlainError("TypeError")) ELSE res,
            !.wait = 0]

\* the executionPromise resolves
Finish(r, res) ==
  [r EXCEPT !.phase = "done", !.executionPromise = "fulfilled",
            !.result = res, !.wait = 0]

\* faulty variants of the retry condition: an off-by-one budget, a dropped
\* status test
ShouldRetryHttpOffByOne(attempt, retryCount, status) ==
  attempt <= retryCount /\ (status >= 500 \/ status = 429)

ShouldRetryHttpAnyStatus(attempt, retryCount, status) ==
  attempt < retryCount

\* attempt < this.retryCount && (status >= 500 || status === 429)
ShouldRetryHttp(attempt, retryCount, status) ==
  attempt < retryCount /\ (status >= 500 \/ status = 429)

\* attempt < this.retryCount && fetchError.name !== "AbortError"
ShouldRetryError(attempt, retryCount, name) ==
  attempt < retryCount /\ name # "AbortError"

\* faulty variant of the backoff: the same wait before every retry
BackoffMsConstant(retryDelayMs, attempt) == retryDelayMs

\* this.retryDelayMs * (attempt + 1)
BackoffMs(retryDelayMs, attempt) == retryDelayMs * (attempt + 1)

Max(a, b) == IF a >= b THEN a ELSE b

\* faulty variant of the Retry-After reading: the HTTP date form is ignored
RetryAfterMsSecondsOnly(resp) ==
  IF resp.status = 429 /\ resp.ra.kind = "seconds" THEN resp.ra.n * 1000 ELSE 0

\* Retry-After of a 429: Number(ra) seconds in ms, else
\* Math.max(0, Date.parse(ra) - Date.now()), else 0
RetryAfterMs(resp) ==
  IF resp.status = 429 /\ resp.ra.kind # "absent"
  THEN CASE resp.ra.kind = "seconds" -> resp.ra.n * 1000
         [] resp.ra.kind = "date" -> Max(0, resp.ra.delta)
         [] OTHER -> 0
  ELSE 0

\* await this.sleep(this.retryDelayMs * (attempt + 1)) begins
Backoff(r) ==
  [r EXCEPT !.phase = "backoff",
            !.wait = BackoffMs(r.retryDelayMs, r.attempt),
            !.backoffs = Append(@, BackoffMs(r.retryDelayMs, r.attempt))]

\* faulty variant of the retry decision: the next attempt starts at once
AfterHttpErrorNoWait(r, resp) ==
  IF ShouldRetryHttp(r.attempt, r.retryCount, resp.status)
  THEN StartAttempt(r, r.attempt + 1)
  ELSE Finish(r, Tuple(Null, HttpError(resp, r.finalUrl)))

\* the retry decision after a failure status (and after any Retry-After sleep)
AfterHttpError(r, resp) ==
  IF ShouldRetryHttp(r.attempt, r.retryCount, resp.status)
  THEN Backoff(r)
  ELSE Finish(r, Tuple(Null, HttpError(resp, r.finalUrl)))

\* if (timeoutId) clearTimeout(timeoutId)
ClearTimer(r) == [r EXCEPT !.timer = IF @ = "armed" THEN "cleared" ELSE @]

\* the continuation after fetchFn resolved with resp
OnResponse(r, resp) ==
  LET r1 == [ClearTimer(r) EXCEPT !.last = [kind |-> "http", resp |-> resp],
                                  !.inflight = @ - 1]
  IN  IF ok(resp) THEN Finish(r1, Tuple(resp, Null))
      ELSE IF RetryAfterMs(resp) > 0
           THEN [r1 EXCEPT !.phase = "retryAfter", !.wait = RetryAfterMs(resp)]
           ELSE AfterHttpError(r1, resp)

\* the catch block after fetchFn rejected with an error named name
OnReject(r, name, cause) ==
  LET r1 == [r EXCEPT !.last = [kind |-> "error", name |-> name, cause |-> cause],
                      !.inflight = @ - 1]
  IN  IF ShouldRetryError(r.attempt, r.retryCount, name)
      THEN Backoff(r1)
      ELSE Finish(r1, Tuple(Null, PlainError(name)))

\* faulty variant of the memo test: execute() starts a run on every call
MemoIgnored(r) == TRUE

\* if (!this.executionPromise) this.executionPromise = this.executeWithRetry()
MemoMissing(r) == r.executionPromise = "unset"

execute(r) ==
  IF MemoMissing(r)
  THEN StartAttempt([r EXCEPT !.executionPromise = "pending", !.execs = @ + 1], 0)
  ELSE r

\* ------------------------------------------------------------------ decoders
Data(method) == [kind |-> "data", of |-> method]
Stream == [kind |-> "stream"]
\* what a terminal operation's promise settles with, and whether the body it
\* worked on is used afterwards: the operations return a tuple
Read(tuple, used) == [settled |-> "fulfilled", tuple |-> tuple, used |-> used]

\* the outcome of awaiting a body reader: a value, or an exception
Returned(value, used) == [threw |-> FALSE, value |-> value, used |-> used]
Thrown(error, used) == [threw |-> TRUE, error |-> error, used |-> used]

\* response[method]() of the transport's Response: a body is read at most
\* once; a structured reader rejects what it cannot parse.
BodyReader(resp, used, method) ==
  IF used THEN Thrown(PlainError("TypeError"), used)
  ELSE LET used2 == resp.body # "null"
       IN  CASE method = "json" ->
                  IF resp.body = "good" THEN Returned(Data(method), used2)
                  ELSE IF resp.body = "jsonnull" THEN Returned(Null, used2)
                  ELSE Thrown(PlainError("SyntaxError"), used2)
             [] method = "formData" ->
                  IF resp.body = "good" THEN Returned(Data(method), used2)
                  ELSE Thrown(PlainError("TypeError"), used2)
             [] OTHER -> Returned(Data(method), used2)

\* faulty variant of the decoders: no catch clause, the reader's exception
\* rejects the operation's promise
Uncaught(o) ==
  IF o.threw
  THEN [settled |-> "rejected", tuple |-> Tuple(Null, Null), used |-> o.used]
  ELSE Read(Tuple(o.value, Null), o.used)

\* try { return [await ..., null] } catch (parseError) { return [null, parseError] }
Caught(o) ==
  IF o.threw THEN Read(Tuple(Null, o.error), o.used)
  ELSE Read(Tuple(o.value, Null), o.used)

\* the guarded read of a body that every decoder performs
BodyRead(resp, used, method) == Caught(BodyReader(resp, used, method))

\* tupleParseResponse(response, method)
tupleParseResponse(resp, used, method) == BodyRead(resp, used, method)

\* faulty variant of the empty-body test: Content-Length is not looked at
EmptyBodyStatusOnly(resp) == resp.status = 204

\* faulty variant of the empty-body test: the status comparison inverted
EmptyBodyInverted(resp) == resp.status # 204 \/ resp.cl0

\* response.status === 204 || response.headers.get("Content-Length") === "0"
EmptyBody(resp) == resp.status = 204 \/ resp.cl0

\* NeatFetch.json(), after execute() resolved
json(r) ==
  IF r.result.error # Null THEN Read(Tuple(Null, r.result.error), r.bodyUsed)
  ELSE IF EmptyBody(r.result.value) THEN Read(Tuple(Null, Null), r.bodyUsed)
  ELSE BodyRead(r.result.value, r.bodyUsed, "json")

\* NeatFetch.text / blob / arrayBuffer / formData, after execute() resolved
parse(r, method) ==
  IF r.result.error # Null THEN Read(Tuple(Null, r.result.error), r.bodyUsed)
  ELSE BodyRead(r.result.value, r.bodyUsed, method)

\* NeatFetch.stream(), after execute() resolved: [response.body, null]
stream(r) ==
  IF r.result.error # Null THEN Read(Tuple(Null, r.result.error), r.bodyUsed)
  ELSE Read(Tuple(IF r.result.value.body = "null" THEN Null ELSE Stream, Null),
            r.bodyUsed)

\* faulty variant of the decoders: a failed read starts the request again
AfterDecodeRetrying(r, rd) ==
  IF r.result.error = Null /\ rd.tuple.error # Null
  THEN StartAttempt([r EXCEPT !.bodyUsed = FALSE], 0)
  ELSE [r EXCEPT !.bodyUsed = rd.used]

\* the instance once a terminal operation has returned its tuple rd: nothing
\* but the response's body state has changed
AfterDecode(r, rd) == [r EXCEPT !.bodyUsed = rd.used]

\* what the terminal operation op of instance r resolves to
ResultOf(r, op) ==
  CASE op \in RawOps \cup RawVerbs -> Read(r.result, r.bodyUsed)
    [] op \in {"json"} \cup JsonVerbs -> json(r)
    [] op = "stream" -> stream(r)
    [] OTHER -> parse(r, op)

\* ------------------------------------------------------------ serializeBody
\* serializeBody(data): the body and the headers post/put/patch pass on
serializeBody(data, headersObj) ==
  IF data = "null" THEN [body |-> "none", headers |-> NoHeaders]
  ELSE IF data \in BodyInitKinds \cup {"string"}
       THEN [body |-> data, headers |-> NoHeaders]
       ELSE [body |-> "json",
             headers |->
               IF "Content-Type" \notin DOMAIN headersObj
                  /\ "content-type" \notin DOMAIN headersObj
               THEN [k \in {"content-type"} |-> "application/json"]
               ELSE NoHeaders]

\* the options a verb constructs its new instance with:
\* { ...this.fetchOptions, method } and, for post/put/patch, body and headers
VerbOptions(r, verb, data) ==
  LET method == CASE verb = "get" -> "GET" [] verb = "post" -> "POST"
                  [] verb = "put" -> "PUT" [] verb = "patch" -> "PATCH"
                  [] verb = "delete" -> "DELETE" [] verb = "head" -> "HEAD"
                  [] OTHER -> "OPTIONS"
      ser == serializeBody(data, r.headersObj)
  IN  IF verb \in BodyVerbs
      THEN [r.fetchOptions EXCEPT !.method = method, !.body = ser.body,
                                  !.headers = ser.headers]
      ELSE [r.fetchOptions EXCEPT !.method = method]

\* --------------------------------------------------------------------- Init
NoResult ==
  [inst |-> 0, op |-> "none", via |-> "none", settled |-> "none",
   tuple |-> Tuple(Null, Null)]

\* neatFetch(url, options): one instance, nothing executed yet.  The options
\* are drawn from the given sets; hangs says whether the transport is one that
\* never settles on its own.
Created(headerSet, timeoutSet, retrySet, signalSet, hangSet) ==
  /\ \E headers \in headerSet, timeout \in timeoutSet,
        retry \in retrySet, signal \in signalSet :
       inst = << NeatFetch(UsersUrl,
                           Options("GET", "none", headers, timeout, retry, signal),
                           NoOrigin) >>
  /\ callerAborted = FALSE
  /\ transportHangs \in hangSet
  /\ lastResult = NoResult

\* every timeout configuration against every transport: without a caller
\* signal with no retry, one retry or the largest budget; with a caller signal
\* with no retry or one
Init ==
  \/ Created({RichHeaders}, {0, TimeoutMs}, {0, 1, MaxRetry}, {FALSE}, BOOLEAN)
  \/ Created({RichHeaders}, {0, TimeoutMs}, {0, 1}, {TRUE}, BOOLEAN)

\* every header configuration, no retry and no timeout, a settling transport
InitVerbs == Created(HeaderChoices, {0}, {0}, {FALSE}, {FALSE})

\* ------------------------------------------------------------------ actions
\* The caller consumes an instance it holds (the root, or one a mutator
\* returned): then / catch / finally / json / text / ...
\* each calls execute() synchronously and then awaits the memoized promise.
Consume(i, op) ==
  /\ inst[i].origin.verb = "none"
  /\ inst[i].consumed < MaxConsume
  /\ op \notin inst[i].waiting
  /\ inst' = [inst EXCEPT ![i] =
                [execute(inst[i]) EXCEPT !.waiting = @ \cup {op},
                                         !.consumed = @ + 1]]
  /\ UNCHANGED <<callerAborted, transportHangs, lastResult>>

\* The continuation of a terminal operation runs once executionPromise has
\* resolved, and the operation's own promise resolves to a tuple.
Deliver(i, op) ==
  /\ inst[i].phase = "done"
  /\ op \in inst[i].waiting
  /\ LET rd == ResultOf(inst[i], op)
     IN  /\ inst' = [inst EXCEPT ![i] =
                       [AfterDecode(inst[i], rd) EXCEPT !.waiting = @ \ {op}]]
         /\ lastResult' = [inst |-> i, op |-> op, via |-> "instance",
                           settled |-> rd.settled, tuple |-> rd.tuple]
  /\ UNCHANGED <<callerAborted, transportHangs>>

\* fromResponse(response).op() on a response the caller was just handed:
\* the raw response of a success, or error.response of an HTTP failure.
FromResponse(i, op) ==
  /\ lastResult.inst = i
  /\ \/ /\ lastResult.tuple.value.kind = "response"
        /\ LET rd == tupleParseResponse(lastResult.tuple.value, inst[i].bodyUsed, op)
           IN  /\ inst' = [inst EXCEPT ![i].bodyUsed = rd.used]
               /\ lastResult' = [inst |-> i, op |-> op, via |-> "fromResponse",
                                 settled |-> rd.settled, tuple |-> rd.tuple]
     \/ /\ lastResult.tuple.error.kind = "error"
        /\ "response" \in DOMAIN lastResult.tuple.error
        /\ LET rd == tupleParseResponse(lastResult.tuple.error.response,
                                        inst[i].cloneUsed, op)
           IN  /\ inst' = [inst EXCEPT ![i].cloneUsed = rd.used]
               /\ lastResult' = [inst |-> i, op |-> op, via |-> "fromResponse",
                                 settled |-> rd.settled, tuple |-> rd.tuple]
  /\ UNCHANGED <<callerAborted, transportHangs>>

\* setTimeout(() => controller.abort(), this.timeoutMs) of the current attempt
TimerFire(i) ==
  /\ inst[i].timer = "armed"
  /\ inst' = [inst EXCEPT ![i].timer = "fired", ![i].ctrlAborted = TRUE]
  /\ UNCHANGED <<callerAborted, transportHangs, lastResult>>

\* a timer left armed by an earlier attempt aborts that attempt's controller
StaleTimerFire(i) ==
  /\ inst[i].stale > 0
  /\ inst' = [inst EXCEPT ![i].stale = @ - 1]
  /\ UNCHANGED <<callerAborted, transportHangs, lastResult>>

\* the transport resolves with a response
FetchRespond(i, resp) ==
  /\ inst[i].phase = "fetching"
  /\ ~transportHangs
  /\ ~SignalAborted(inst[i])
  /\ inst' = [inst EXCEPT ![i] = OnResponse(inst[i], resp)]
  /\ UNCHANGED <<callerAborted, transportHangs, lastResult>>

\* the transport rejects with a network failure (TypeError)
FetchReject(i) ==
  /\ inst[i].phase = "fetching"
  /\ ~transportHangs
  /\ ~SignalAborted(inst[i])
  /\ inst' = [inst EXCEPT ![i] = OnReject(inst[i], "TypeError", "network")]
  /\ UNCHANGED <<callerAborted, transportHangs, lastResult>>

\* the transport rejects with AbortError because its signal is aborted
FetchAbort(i) ==
  /\ inst[i].phase = "fetching"
  /\ SignalAborted(inst[i])
  /\ inst' = [inst EXCEPT ![i] =
                OnReject(inst[i], "AbortError",
                         IF SignalOf(inst[i]) = "caller" THEN "caller" ELSE "timeout")]
  /\ UNCHANGED <<callerAborted, transportHangs, lastResult>>

\* await this.sleep(retryAfterMs) returns
RetryAfterElapsed(i) ==
  /\ inst[i].phase = "retryAfter"
  /\ inst' = [inst EXCEPT ![i] =
                AfterHttpError([inst[i] EXCEPT !.slept = Append(@, "retryAfter")],
                               inst[i].last.resp)]
  /\ UNCHANGED <<callerAborted, transportHangs, lastResult>>

\* faulty variant of the sleeps: the backoff sleep never resolves
BackoffNeverElapses(i) == FALSE /\ UNCHANGED vars

\* await this.sleep(retryDelayMs * (attempt + 1)) returns:
\* return this.executeWithRetry(attempt + 1)
BackoffElapsed(i) ==
  /\ inst[i].phase = "backoff"
  /\ inst' = [inst EXCEPT ![i] = StartAttempt(inst[i], inst[i].attempt + 1)]
  /\ UNCHANGED <<callerAborted, transportHangs, lastResult>>

\* the caller aborts the AbortController whose signal it passed in options
CallerAbort ==
  /\ inst[Root].fetchOptions.signal
  /\ ~callerAborted
  /\ callerAborted' = TRUE
  /\ UNCHANGED <<inst, transportHangs, lastResult>>

\* faulty variant of the verbs: the receiver is executed, not the new instance
VerbTargetReceiver(receiver, fresh) == receiver

\* the instance whose execution a verb runs: the new one
VerbTarget(receiver, fresh) == fresh

\* get / post / put / patch / delete / head / options on the root: a new
\* instance is constructed and immediately consumed (json() or execute()).
Verb(i, verb, data) ==
  /\ i = Root
  /\ Len(inst) < MaxInst
  /\ verb \in BodyVerbs \/ data = "null"
  /\ LET fresh == Len(inst) + 1
         made == Append(inst, NeatFetch(inst[i].url,
                                        VerbOptions(inst[i], verb, data),
                                        [parent |-> i, verb |-> verb, data |-> data]))
         t == VerbTarget(i, fresh)
     IN  inst' = [made EXCEPT ![t] = [execute(made[t]) EXCEPT !.waiting = @ \cup {verb}]]
  /\ UNCHANGED <<callerAborted, transportHangs, lastResult>>

\* ----------------------------------------------------------------- mutators
\* { ...a, ...b }
Spread(a, b) ==
  [k \in DOMAIN a \cup DOMAIN b |-> IF k \in DOMAIN b THEN b[k] ELSE a[k]]

\* retry(count, delay = 1000): the value of an omitted delay argument
DefaultDelayArg == 1000
Omitted == -1

\* clone(): { ...this.fetchOptions }
clone(r) == r.fetchOptions

\* timeout(ms): { ...this.fetchOptions, timeout: ms }
timeout(r, ms) == [r.fetchOptions EXCEPT !.timeout = ms]

\* retry(count, delay): { ...this.fetchOptions, retry: count, retryDelay: delay }
retry(r, count, delay) ==
  [r.fetchOptions EXCEPT !.retry = count,
                         !.retryDelay = IF delay = Omitted THEN DefaultDelayArg
                                        ELSE delay]

\* baseURL(url): { ...this.fetchOptions, baseURL: url }
baseURL(r, u) == [r.fetchOptions EXCEPT !.baseURL = u]

\* headers(h): { ...this.fetchOptions, headers: { ...this.headersObj, ...h } }
headers(r, h) == [r.fetchOptions EXCEPT !.headers = Spread(r.headersObj, h)]

\* query(q): { ...this.fetchOptions, params: { ...this.fetchOptions.params, ...q } }
query(r, q) == [r.fetchOptions EXCEPT !.params = Spread(r.fetchOptions.params, q)]

\* The mutator calls a caller makes.
MutatorCalls ==
  { [name |-> "clone"],
    [name |-> "timeout", ms |-> TimeoutMs],
    [name |-> "retry", count |-> 1, delay |-> Omitted],
    [name |-> "retry", count |-> 1, delay |-> 250],
    [name |-> "baseURL", url |-> <<"https://api.test", Slash, "v2", Slash>>],
    [name |-> "headers",
     h |-> [k \in {"authorization", "Content-Type"} |->
              IF k = "authorization" THEN "Bearer u" ELSE "application/json"]],
    [name |-> "query",
     q |-> [k \in {"page", "tag"} |->
              IF k = "page" THEN Scalar("2") ELSE Array(<<"a", "b">>)]] }

MutatorOptions(r, call) ==
  CASE call.name = "clone" -> clone(r)
    [] call.name = "timeout" -> timeout(r, call.ms)
    [] call.name = "retry" -> retry(r, call.count, call.delay)
    [] call.name = "baseURL" -> baseURL(r, call.url)
    [] call.name = "headers" -> headers(r, call.h)
    [] OTHER -> query(r, call.q)

\* faulty variant of the mutators: the new instance inherits the receiver's
\* memoized execution
MutatedSharingMemo(r, options, origin) ==
  [NeatFetch(r.url, options, origin) EXCEPT
     !.executionPromise = r.executionPromise, !.result = r.result,
     !.phase = r.phase, !.execs = r.execs, !.calls = r.calls,
     !.last = r.last, !.sent = r.sent]

\* return new NeatFetch(this.url, options): what every mutator returns
Mutated(r, options, origin) == NeatFetch(r.url, options, origin)

\* clone / timeout / retry / baseURL / headers / query on instance i
Mutate(i, call) ==
  /\ Len(inst) < MaxInst
  /\ inst[i].origin.verb = "none"
  /\ inst' = Append(inst,
                    Mutated(inst[i], MutatorOptions(inst[i], call),
                            [parent |-> i, verb |-> "none", data |-> "null",
                             call |-> call]))
  /\ UNCHANGED <<callerAborted, transportHangs, lastResult>>

\* ------------------------------------------------- createNeatFetchInstance
\* A FetchOptions object as the caller writes it: only the keys given.
NoConfig == [k \in {} |-> 0]
Field(given, key, value) == IF given THEN [k \in {key} |-> value] ELSE NoConfig

\* options[key], or what the constructor makes of undefined
Opt(config, key, default) == IF key \in DOMAIN config THEN config[key] ELSE default

\* the total record the constructor reads out of a caller's options object
FromConfig(config) ==
  [Options("GET", "none", Opt(config, "headers", NoHeaders),
           Opt(config, "timeout", 0), Opt(config, "retry", 0), FALSE)
     EXCEPT !.params = Opt(config, "params", NoParams),
            !.fetchFn = Opt(config, "fetchFn", "absent")]

\* faulty variant of the factory: the base configuration wins
createNeatFetchInstanceBaseWins(baseConfig, instanceConfig) ==
  [k \in DOMAIN baseConfig \cup DOMAIN instanceConfig
           \cup {"fetchFn", "headers", "params"} |->
     CASE k = "fetchFn" ->
            Opt(baseConfig, k, Opt(instanceConfig, k, "globalThis.fetch"))
       [] k = "headers" ->
            Spread(normalizeHeaders(Opt(instanceConfig, k, NoHeaders)),
                   normalizeHeaders(Opt(baseConfig, k, NoHeaders)))
       [] k = "params" ->
            Spread(Opt(instanceConfig, k, NoParams), Opt(baseConfig, k, NoParams))
       [] OTHER -> IF k \in DOMAIN baseConfig THEN baseConfig[k]
                  ELSE instanceConfig[k]]

\* the options createNeatFetchInstance(baseConfig)(url, instanceConfig) passes
\* to the constructor: { ...baseConfig, ...instanceConfig, fetchFn, headers,
\* params }
createNeatFetchInstance(baseConfig, instanceConfig) ==
  [k \in DOMAIN baseConfig \cup DOMAIN instanceConfig
           \cup {"fetchFn", "headers", "params"} |->
     CASE k = "fetchFn" ->
            Opt(instanceConfig, k, Opt(baseConfig, k, "globalThis.fetch"))
       [] k = "headers" ->
            Spread(normalizeHeaders(Opt(baseConfig, k, NoHeaders)),
                   normalizeHeaders(Opt(instanceConfig, k, NoHeaders)))
       [] k = "params" ->
            Spread(Opt(baseConfig, k, NoParams), Opt(instanceConfig, k, NoParams))
       [] OTHER -> IF k \in DOMAIN instanceConfig THEN instanceConfig[k]
                  ELSE baseConfig[k]]

\* The options objects a caller hands to the factory and to the function it
\* returns: every key given or not.
ConfigHeaders ==
  { RichHeaders, [k \in {"authorization"} |-> "Bearer u"],
    [k \in {"Content-Type"} |-> "application/json"] }

ConfigParams ==
  { [k \in {"page"} |-> Scalar("1")],
    [k \in {"page", "tag"} |->
       IF k = "page" THEN Scalar("2") ELSE Array(<<"a", "b">>)] }

FactoryConfigs ==
  { Field(hg, "headers", h) @@ Field(pg, "params", p) @@ Field(tg, "timeout", t)
      @@ Field(rg, "retry", MaxRetry) @@ Field(fg, "fetchFn", f) :
      hg \in BOOLEAN, h \in ConfigHeaders, pg \in BOOLEAN, p \in ConfigParams,
      tg \in BOOLEAN, t \in {0, TimeoutMs}, rg \in BOOLEAN,
      fg \in BOOLEAN, f \in {"fetchA", "fetchB"} }

\* const api = createNeatFetchInstance(baseConfig); api(url, instanceConfig)
Configured ==
  /\ Len(inst) = 0
  /\ \E baseConfig \in FactoryConfigs, instanceConfig \in FactoryConfigs :
       inst' = << NeatFetch(UsersUrl,
                            FromConfig(createNeatFetchInstance(baseConfig,
                                                               instanceConfig)),
                            [parent |-> 0, verb |-> "none", data |-> "null",
                             base |-> baseConfig, config |-> instanceConfig]) >>
  /\ UNCHANGED <<callerAborted, transportHangs, lastResult>>

\* The request engine and its consumers: one instance, every operation that
\* consumes it, every behaviour of the transport, the timers and the caller.
Next ==
  \/ \E i \in Insts, op \in ConsumeOps : Consume(i, op)
  \/ \E i \in Insts, op \in ConsumeOps : Deliver(i, op)
  \/ \E i \in Insts, op \in FromResponseOps : FromResponse(i, op)
  \/ \E i \in Insts : TimerFire(i)
  \/ \E i \in Insts : StaleTimerFire(i)
  \/ \E i \in Insts, resp \in Responses : FetchRespond(i, resp)
  \/ \E i \in Insts : FetchReject(i)
  \/ \E i \in Insts : FetchAbort(i)
  \/ \E i \in Insts : RetryAfterElapsed(i)
  \/ \E i \in Insts : BackoffElapsed(i)
  \/ CallerAbort

Spec == Init /\ [][Next]_vars

\* The event loop runs every continuation that is ready, every timer that is
\* armed fires, every sleep ends, and a transport that settles does settle.
\* Nothing obliges the caller to consume, to call a verb or to abort.
Fairness ==
  /\ \A i \in 1..MaxInst : WF_vars(i \in Insts /\ TimerFire(i))
  /\ \A i \in 1..MaxInst : WF_vars(i \in Insts /\ FetchAbort(i))
  /\ \A i \in 1..MaxInst : WF_vars(i \in Insts /\ RetryAfterElapsed(i))
  /\ \A i \in 1..MaxInst : WF_vars(i \in Insts /\ BackoffElapsed(i))
  /\ \A i \in 1..MaxInst :
       WF_vars(i \in Insts /\ ((\E resp \in Responses : FetchRespond(i, resp))
                                 \/ FetchReject(i)))

FairSpec == Init /\ [][Next]_vars /\ Fairness

\* The verb shortcuts: the root, consumed or not, and the instances its verbs
\* make, against a transport that answers.
VerbResponses ==
  { Resp(200, NoRA, FALSE, "good"), Resp(404, NoRA, FALSE, "good") }

VerbPayloads == Payloads \ {"formData"}

NextVerbs ==
  \/ \E i \in Insts, op \in {"then"} : Consume(i, op)
  \/ \E i \in Insts, op \in ConsumeOps \cup Verbs : Deliver(i, op)
  \/ \E i \in Insts, resp \in VerbResponses : FetchRespond(i, resp)
  \/ \E i \in Insts, verb \in Verbs, data \in VerbPayloads : Verb(i, verb, data)

SpecVerbs == InitVerbs /\ [][NextVerbs]_vars

\* The decoders: an execution without timeout or caller signal, with no
\* retry or the largest budget, every consuming operation and fromResponse,
\* every behaviour of a transport that settles.
InitDecode == Created({RichHeaders}, {0}, {0, MaxRetry}, {FALSE}, {FALSE})

NextDecode ==
  \/ \E i \in Insts, op \in ConsumeOps : Consume(i, op)
  \/ \E i \in Insts, op \in ConsumeOps : Deliver(i, op)
  \/ \E i \in Insts, op \in FromResponseOps : FromResponse(i, op)
  \/ \E i \in Insts, resp \in Responses : FetchRespond(i, resp)
  \/ \E i \in Insts : FetchReject(i)
  \/ \E i \in Insts : RetryAfterElapsed(i)
  \/ \E i \in Insts : BackoffElapsed(i)

SpecDecode == InitDecode /\ [][NextDecode]_vars

\* One execution to its end: every timeout and retry configuration, with and
\* without a caller signal, one consumer, against a transport that settles
\* every call, under the event loop's fairness.
InitTermination ==
  Created({NoHeaders}, {0, TimeoutMs}, {0, 1, MaxRetry}, BOOLEAN, {FALSE})

NextTermination ==
  \/ \E i \in Insts, op \in {"then"} : Consume(i, op)
  \/ \E i \in Insts, op \in {"then"} : Deliver(i, op)
  \/ \E i \in Insts : TimerFire(i)
  \/ \E i \in Insts : StaleTimerFire(i)
  \/ \E i \in Insts, resp \in Responses : FetchRespond(i, resp)
  \/ \E i \in Insts : FetchReject(i)
  \/ \E i \in Insts : FetchAbort(i)
  \/ \E i \in Insts : RetryAfterElapsed(i)
  \/ \E i \in Insts : BackoffElapsed(i)
  \/ CallerAbort

SpecTermination == InitTermination /\ [][NextTermination]_vars /\ Fairness

\* The payloads of post / put / patch: every header configuration of the
\* receiver against every kind of payload, the request each verb sends.
NextBody ==
  \/ \E i \in Insts, verb \in BodyVerbs : Deliver(i, verb)
  \/ \E i \in Insts : FetchRespond(i, Resp(200, NoRA, FALSE, "good"))
  \/ \E i \in Insts, verb \in BodyVerbs, data \in AllPayloads : Verb(i, verb, data)

SpecBody == InitVerbs /\ [][NextBody]_vars

\* URL composition: every combination of target, base URL and query
\* parameters, the instance constructed from it, and its request.
UrlTargets ==
  { <<"users">>, <<Slash, "users">>, <<Slash, Slash, "users">>, << >>,
    <<"users", "?", "x", "=", "1">>,
    <<"https://api.test">>, <<"https://api.test", Slash, "v1", Slash, "users">> }

UrlBases ==
  { NoUrl, <<"https://api.test">>, <<"https://api.test", Slash>>,
    <<"https://api.test", Slash, Slash>>,
    <<"https://api.test", Slash, "v2", Slash>>, <<Slash, "api">>, <<Slash>> }

UrlParams ==
  { NoParams,
    [k \in {"page", "tag"} |->
       IF k = "page" THEN Scalar("1") ELSE Array(<<"a", "b">>)],
    [k \in {"page", "tag", "q"} |->
       IF k = "page" THEN Null ELSE IF k = "tag" THEN Array(<< >>) ELSE Scalar("x")],
    [k \in {"tag", "q"} |-> IF k = "tag" THEN Array(<<"b">>) ELSE Null] }

InitUrl ==
  /\ \E url \in UrlTargets, base \in UrlBases, params \in UrlParams :
       inst = << NeatFetch(url,
                           [Options("GET", "none", NoHeaders, 0, 0, FALSE)
                              EXCEPT !.baseURL = base, !.params = params],
                           NoOrigin) >>
  /\ callerAborted = FALSE
  /\ transportHangs = FALSE
  /\ lastResult = NoResult

NextUrl ==
  \/ \E i \in Insts, op \in {"then"} : Consume(i, op)
  \/ \E i \in Insts, op \in {"then"} : Deliver(i, op)
  \/ \E i \in Insts : FetchRespond(i, Resp(404, NoRA, FALSE, "good"))

SpecUrl == InitUrl /\ [][NextUrl]_vars

\* The waits of one execution: every retry budget, no timeout and no caller
\* signal, one consumer, a transport that answers or fails, with every form
\* of Retry-After; the retry delay is left out or configured.
InitBackoff ==
  \/ Created({NoHeaders}, {0}, 0..MaxBackoffs, {FALSE}, {FALSE})
  \/ /\ \E count \in 1..MaxBackoffs :
          inst = << NeatFetch(UsersUrl,
                              [Options("GET", "none", NoHeaders, 0, count, FALSE)
                                 EXCEPT !.retryDelay = RootRetryDelay],
                              NoOrigin) >>
     /\ callerAborted = FALSE
     /\ transportHangs = FALSE
     /\ lastResult = NoResult

BackoffResponses ==
  { Resp(200, NoRA, FALSE, "good"), Resp(404, NoRA, FALSE, "good"),
    Resp(429, NoRA, FALSE, "good"), Resp(429, RASec(0), FALSE, "good"),
    Resp(429, RASec(RetryAfterSec), FALSE, "good"),
    Resp(429, RADate(RetryAfterDateMs), FALSE, "good"),
    Resp(429, RADate(-RetryAfterDateMs), FALSE, "good"),
    Resp(429, RAOther, FALSE, "good"),
    Resp(500, RASec(RetryAfterSec), FALSE, "bad"),
    Resp(500, NoRA, FALSE, "bad") }

NextBackoff ==
  \/ \E i \in Insts, op \in {"then"} : Consume(i, op)
  \/ \E i \in Insts, op \in {"then"} : Deliver(i, op)
  \/ \E i \in Insts, resp \in BackoffResponses : FetchRespond(i, resp)
  \/ \E i \in Insts : FetchReject(i)
  \/ \E i \in Insts : RetryAfterElapsed(i)
  \/ \E i \in Insts : BackoffElapsed(i)

SpecBackoff == InitBackoff /\ [][NextBackoff]_vars

\* The configured factory: every pair of base and per-call options, the
\* instance made from them, consumed against a transport that answers.
InitFactory ==
  /\ inst = << >>
  /\ callerAborted = FALSE
  /\ transportHangs = FALSE
  /\ lastResult = NoResult

NextFactory ==
  \/ Configured
  \/ \E i \in Insts, op \in {"then"} : Consume(i, op)
  \/ \E i \in Insts, op \in {"then"} : Deliver(i, op)
  \/ \E i \in Insts : FetchRespond(i, Resp(200, NoRA, FALSE, "good"))

SpecFactory == InitFactory /\ [][NextFactory]_vars

\* The mutators: a root with every option configured, the instances the
\* mutators derive from it (and from one another), each consumed or not,
\* against a transport that answers.
UsersPath == <<Slash, "users">>

InitMutators ==
  /\ inst = << NeatFetch(UsersPath,
                           [Options("GET", "none", RichHeaders, 0, MaxRetry, FALSE)
                              EXCEPT !.retryDelay = RootRetryDelay,
                                     !.baseURL = <<"https://api.test">>,
                                     !.params = [k \in {"page"} |-> Scalar("1")]],
                           NoOrigin) >>
  /\ callerAborted = FALSE
  /\ transportHangs = FALSE
  /\ lastResult = NoResult

MutatorResponses == { Resp(200, NoRA, FALSE, "good"), Resp(404, NoRA, FALSE, "good") }

NextMutators ==
  \/ \E i \in Insts, call \in MutatorCalls : Mutate(i, call)
  \/ \E i \in Insts, op \in {"then"} : Consume(i, op)
  \/ \E i \in Insts, op \in {"then"} : Deliver(i, op)
  \/ \E i \in Insts, resp \in MutatorResponses : FetchRespond(i, resp)

SpecMutators == InitMutators /\ [][NextMutators]_vars

\* =================================================================== claims
Populated(x) == x # Null

\* a failure the retry policy covers: status >= 500, status 429, or a
\* transport failure that is not a cancellation
RetryableOutcome(o) ==
  \/ o.kind = "http" /\ (o.resp.status >= 500 \/ o.resp.status = 429)
  \/ o.kind = "error" /\ o.name # "AbortError"

\* C1 -- Memoization: whatever the number and interleaving of consumptions of
\* one instance, exactly one executeWithRetry run is started: the memo is set
\* by the first consumption and never replaced, so the transport is called at
\* most retryCount + 1 times (exactly once with retry = 0), and a raw
\* consumption resolves to the memoized outcome.
C1_Memoized ==
  \A i \in Insts :
    /\ inst[i].execs <= 1
    /\ (inst[i].executionPromise = "unset") = (inst[i].execs = 0)
    /\ inst[i].consumed > 0 => inst[i].execs = 1
    /\ inst[i].calls <= inst[i].retryCount + 1
    /\ (inst[i].retryCount = 0 /\ inst[i].execs = 1) => inst[i].calls = 1
    /\ (lastResult.inst = i /\ lastResult.via = "instance"
          /\ lastResult.op \in RawOps) => lastResult.tuple = inst[i].result

\* two consumptions issued before the first settled, one run, one call
C1_Witness ==
  /\ inst[Root].consumed = 2
  /\ Cardinality(inst[Root].waiting) = 2
  /\ inst[Root].phase = "fetching"
  /\ inst[Root].execs = 1
  /\ inst[Root].calls = 1

C3_RetryBound ==
  \A i \in Insts :
    /\ inst[i].calls <= inst[i].retryCount + 1
    /\ (inst[i].execs > 0 /\ inst[i].retryCount = 0) => inst[i].calls = 1
    /\ (inst[i].phase = "done" /\ RetryableOutcome(inst[i].last)) =>
         /\ inst[i].calls = inst[i].retryCount + 1
         /\ inst[i].result.value = Null
         /\ inst[i].result.error.kind = "error"
         /\ inst[i].last.kind = "http" =>
              inst[i].result.error = HttpError(inst[i].last.resp, inst[i].finalUrl)

\* retry = 2, the last of exactly 3 attempts answered 500, terminal error 500
C3_Witness ==
  /\ inst[Root].retryCount = 2
  /\ inst[Root].calls = 3
  /\ inst[Root].phase = "done"
  /\ inst[Root].last.kind = "http"
  /\ inst[Root].last.resp.status = 500
  /\ inst[Root].result.error.kind = "error"
  /\ inst[Root].result.error.status = 500

\* C4 -- Retry exclusion: a failure status below 500 other than 429 ends the
\* execution on the attempt that receives it, whatever budget remains: the
\* execution is terminal with that HTTP error and no call follows.
C4_NoRetryBelow500 ==
  \A i \in Insts :
    (/\ inst[i].last.kind = "http"
     /\ ~ok(inst[i].last.resp)
     /\ inst[i].last.resp.status < 500
     /\ inst[i].last.resp.status # 429) =>
       /\ inst[i].phase = "done"
       /\ inst[i].result = Tuple(Null, HttpError(inst[i].last.resp, inst[i].finalUrl))
       /\ inst[i].calls = inst[i].attempt + 1

\* the largest retry budget, a 404 on the first attempt, one call, terminal
C4_Witness ==
  /\ inst[Root].retryCount = MaxRetry
  /\ inst[Root].retryCount > 0
  /\ inst[Root].last.kind = "http"
  /\ inst[Root].last.resp.status = 404
  /\ inst[Root].calls = 1
  /\ inst[Root].phase = "done"
  /\ inst[Root].result.error.kind = "error"

\* C5 (as claimed) -- Timeout means no hang: with a positive timeout and a
\* transport that settles only once the signal it was handed is aborted, a
\* started execution eventually ends with a terminal error.
C5_TimeoutEndsExecution ==
  \A i \in 1..MaxInst :
    (/\ i \in Insts
     /\ transportHangs
     /\ inst[i].timeoutMs > 0
     /\ inst[i].execs > 0)
      ~> (/\ i \in Insts
          /\ inst[i].phase = "done"
          /\ inst[i].result.error # Null)

\* C6 (as claimed) -- with a caller token and a timeout both configured,
\* either trigger aborts the attempt in flight: once the attempt's timer has
\* fired, or the caller's token is aborted, the signal the transport holds is
\* aborted.
C6_EitherTriggerAborts ==
  \A i \in Insts :
    (/\ inst[i].phase = "fetching"
     /\ inst[i].requestInit.signal
     /\ inst[i].timeoutMs > 0) =>
       /\ inst[i].timer = "fired" => SignalAborted(inst[i])
       /\ callerAborted => SignalAborted(inst[i])

\* C7 (as claimed) -- Caller cancellation is final: once the caller's token is
\* aborted a started execution invokes the transport no more, and when it
\* ends it ends with an error.
C7_NoCallAfterCallerAbort ==
  [][callerAborted =>
       \A i \in Insts :
         inst[i].execs > 0 =>
           /\ inst'[i].calls = inst[i].calls
           /\ (inst[i].phase # "done" /\ inst'[i].phase = "done") =>
                inst'[i].result.error # Null]_vars

\* C8 (as claimed) -- an attempt aborted by the internal timeout is retried
\* while attempts so far < retry count: it does not end the execution.
C8_TimeoutIsRetried ==
  \A i \in Insts :
    (/\ inst[i].last.kind = "error"
     /\ inst[i].last.cause = "timeout"
     /\ inst[i].attempt < inst[i].retryCount) =>
       inst[i].phase # "done"

\* C9 (as claimed) -- post / put / patch send a request that still carries
\* every header configured on the receiver.
C9_ReceiverHeadersCarried ==
  \A i \in Insts :
    (inst[i].origin.verb \in BodyVerbs /\ inst[i].calls > 0) =>
      LET configured == inst[inst[i].origin.parent].fetchOptions.headers
          carried == inst[i].sent.headers
      IN  \A k \in DOMAIN configured :
            \E c \in DOMAIN carried :
              Lower(c) = Lower(k) /\ carried[c] = configured[k]

C11_MutatorsPure ==
  [][/\ Len(inst') > Len(inst) =>
          /\ Len(inst') = Len(inst) + 1
          /\ \A i \in Insts : inst'[i] = inst[i]
          /\ LET made == inst'[Len(inst')]
             IN  /\ made.origin.parent \in Insts
                 /\ made.executionPromise = "unset"
                 /\ made.phase = "idle"
                 /\ made.execs = 0
                 /\ made.calls = 0
     /\ \A i \in Insts :
          (Len(inst') = Len(inst) /\ inst[i].execs = 0
             /\ inst'[i].consumed > inst[i].consumed) =>
            /\ inst'[i].execs = 1
            /\ inst'[i].calls = 1
            /\ inst'[i].phase = "fetching"
            /\ \A j \in Insts \ {i} : inst'[j] = inst[j]]_vars

\* a mutator was called on a receiver that had already executed, and the
\* instance it returned has since run its own execution: one call each
C11_Witness ==
  /\ Len(inst) = 2
  /\ "call" \in DOMAIN inst[2].origin
  /\ inst[2].origin.parent = Root
  /\ inst[Root].executionPromise = "fulfilled"
  /\ inst[Root].calls = 1
  /\ inst[2].executionPromise = "fulfilled"
  /\ inst[2].execs = 1
  /\ inst[2].calls = 1

\* the values a header mapping holds under a name, whatever the case of its keys
HeaderValues(hs, name) == { hs[h] : h \in {g \in DOMAIN hs : Lower(g) = name} }

\* C12 (as claimed) -- Structural isolation: the options of the instance a
\* mutator returns differ from the receiver's only in the mutated field:
\* timeout(ms) the timeout; retry(count, delay?) the retry count and, only when
\* a delay is given, the retry delay; baseURL(u) the base URL; headers(h) /
\* query(q) the mapping, in which every name holds the argument's value when
\* the argument has it and the receiver's value otherwise; clone() nothing.
C12_OnlyMutatedFieldDiffers ==
  \A i \in Insts :
    "call" \in DOMAIN inst[i].origin =>
      LET c == inst[i].origin.call
          a == inst[inst[i].origin.parent].fetchOptions
          b == inst[i].fetchOptions
          changed ==
            CASE c.name = "clone" -> {}
              [] c.name = "timeout" -> {"timeout"}
              [] c.name = "retry" ->
                   IF c.delay = Omitted THEN {"retry"} ELSE {"retry", "retryDelay"}
              [] c.name = "baseURL" -> {"baseURL"}
              [] c.name = "headers" -> {"headers"}
              [] OTHER -> {"params"}
      IN  /\ inst[i].url = inst[inst[i].origin.parent].url
          /\ \A f \in DOMAIN a \ changed : b[f] = a[f]
          /\ c.name = "timeout" => b.timeout = c.ms
          /\ c.name = "retry" => b.retry = c.count
          /\ (c.name = "retry" /\ c.delay # Omitted) => b.retryDelay = c.delay
          /\ c.name = "baseURL" => b.baseURL = c.url
          /\ c.name = "headers" =>
               \A n \in {Lower(h) : h \in DOMAIN a.headers \cup DOMAIN c.h
                                                      \cup DOMAIN b.headers} :
                 HeaderValues(b.headers, n) =
                   IF HeaderValues(c.h, n) # {} THEN HeaderValues(c.h, n)
                   ELSE HeaderValues(a.headers, n)
          /\ c.name = "query" =>
               /\ DOMAIN b.params = DOMAIN a.params \cup DOMAIN c.q
               /\ \A k \in DOMAIN b.params :
                    b.params[k] = IF k \in DOMAIN c.q THEN c.q[k] ELSE a.params[k]

StatusFields == {"status", "statusText", "url", "response"}

\* C14 (as claimed) -- HTTP failure classification: an execution that ended on
\* a transport response ended in success, with that response in the value
\* slot, when the status is in the 2xx or the 3xx range, and in an HTTP status
\* failure (error slot, with status fields) exactly when it is in neither.
C14_FailureOutside2xx3xx ==
  \A i \in Insts :
    (inst[i].phase = "done" /\ inst[i].last.kind = "http") =>
      LET resp == inst[i].last.resp
      IN  IF resp.status >= 200 /\ resp.status <= 399
          THEN inst[i].result = Tuple(resp, Null)
          ELSE /\ inst[i].result.value = Null
               /\ inst[i].result.error.kind = "error"
               /\ "status" \in DOMAIN inst[i].result.error
               /\ inst[i].result.error.status = resp.status

\* C15 -- Error shape by category: the terminal error of an execution whose
\* last attempt received a failure response carries that response's status
\* and status text, the composed request URL (the URL the transport was
\* called with) and the response; the terminal error of an execution whose
\* last attempt ended in a transport failure, a timeout or a cancellation
\* carries none of these fields.
C15_ErrorShape ==
  \A i \in Insts :
    (inst[i].phase = "done" /\ inst[i].result.error # Null) =>
      LET e == inst[i].result.error
      IN  /\ inst[i].last.kind = "http" =>
               /\ StatusFields \subseteq DOMAIN e
               /\ e.status = inst[i].last.resp.status
               /\ e.statusText = inst[i].last.resp.statusText
               /\ e.url = inst[i].finalUrl
               /\ e.url = inst[i].sent.url
               /\ e.response = inst[i].last.resp
          /\ inst[i].last.kind = "error" =>
               /\ inst[i].last.cause \in {"network", "timeout", "caller"}
               /\ StatusFields \cap DOMAIN e = {}

\* a 404 ended the execution: its error carries 404, "Not Found", the URL
\* the transport was called with, and the response
C15_Witness ==
  /\ inst[Root].phase = "done"
  /\ inst[Root].last.kind = "http"
  /\ inst[Root].last.resp.status = 404
  /\ inst[Root].result.error.kind = "error"
  /\ inst[Root].result.error.status = 404
  /\ inst[Root].result.error.statusText = "Not Found"
  /\ inst[Root].result.error.url = inst[Root].sent.url

\* the wait a response asks for, as the claim words it
ClaimedWait(resp) ==
  IF resp.status # 429 THEN 0
  ELSE IF resp.ra.kind = "seconds" THEN resp.ra.n * 1000
  ELSE IF resp.ra.kind = "date" /\ resp.ra.delta > 0 THEN resp.ra.delta
  ELSE 0

\* C16 -- Retry-After cooperation: an attempt that receives a 429 whose
\* Retry-After yields a positive wait W is followed by a sleep of W, during
\* which the execution is still pending and no call is made; when that sleep
\* ends the execution begins the backoff sleep of the next attempt if a retry
\* is left, and otherwise (retry = 0 included) returns the terminal error.  No
\* other response starts such a sleep.
C16_RetryAfterWait ==
  [][\A i \in Insts :
       LET r == inst[i]
           q == inst'[i]
       IN  /\ (r.phase = "fetching" /\ q.phase # "fetching"
                 /\ q.last.kind = "http") =>
                IF ClaimedWait(q.last.resp) > 0
                THEN /\ q.phase = "retryAfter"
                     /\ q.wait = ClaimedWait(q.last.resp)
                     /\ q.calls = r.calls
                     /\ q.executionPromise = "pending"
                     /\ q.backoffs = r.backoffs
                ELSE q.phase # "retryAfter"
           /\ (r.phase = "retryAfter" /\ q.phase # "retryAfter") =>
                IF r.attempt < r.retryCount
                THEN /\ q.phase = "backoff"
                     /\ q.wait = r.retryDelayMs * (r.attempt + 1)
                     /\ q.calls = r.calls
                ELSE /\ q.phase = "done"
                     /\ q.calls = r.calls
                     /\ q.result = Tuple(Null, HttpError(r.last.resp, r.finalUrl))]_vars

\* no retry configured, and the only attempt is followed by the sleep an
\* HTTP-date Retry-After asked for
C16_Witness ==
  /\ inst[Root].retryCount = 0
  /\ inst[Root].calls = 1
  /\ inst[Root].phase = "retryAfter"
  /\ inst[Root].last.resp.ra.kind = "date"
  /\ inst[Root].wait = RetryAfterDateMs

\* C17 -- Empty-body decode: when json() resolves on an execution that
\* succeeded with status 204, or with Content-Length "0", it resolves to
\* (no value, no error) and the body is not read: its used state is as before.
C17_EmptyBodyJson ==
  [][\A i \in Insts :
       (/\ "json" \in inst[i].waiting
        /\ "json" \notin inst'[i].waiting
        /\ inst[i].result.error = Null
        /\ \/ inst[i].result.value.status = 204
           \/ inst[i].result.value.cl0) =>
         /\ lastResult' = [inst |-> i, op |-> "json", via |-> "instance",
                           settled |-> "fulfilled", tuple |-> Tuple(Null, Null)]
         /\ inst'[i].bodyUsed = inst[i].bodyUsed]_vars

\* json() resolved to (no value, no error) on a 200 with Content-Length "0"
\* whose zero-byte body would not parse, and the body is still unread
C17_Witness ==
  /\ lastResult.op = "json"
  /\ lastResult.via = "instance"
  /\ lastResult.tuple = Tuple(Null, Null)
  /\ inst[Root].result.value.kind = "response"
  /\ inst[Root].result.value.status = 200
  /\ inst[Root].result.value.cl0
  /\ inst[Root].result.value.body = "empty"
  /\ ~inst[Root].bodyUsed

\* the read that decoder op performs on the success response of r fails: the
\* body was consumed before, or it is malformed for a structured decoder
DecodeFails(r, op) ==
  /\ r.result.error = Null
  /\ op \in DecodeOps \ {"stream"}
  /\ ~(op = "json" /\ (r.result.value.status = 204 \/ r.result.value.cl0))
  /\ \/ r.bodyUsed
     \/ op = "json" /\ r.result.value.body \notin {"good", "jsonnull"}
     \/ op = "formData" /\ r.result.value.body # "good"

\* C18 -- Decode failures are never retried: the step in which a terminal
\* operation resolves leaves the instance's execution (result, transport
\* calls, runs started) as it was; when the decoding it performs fails, the
\* failure is in the error slot; and a finished execution never calls the
\* transport again.
C18_DecodeFailureNotRetried ==
  [][\A i \in Insts :
       /\ inst[i].phase = "done" =>
            /\ inst'[i].phase = "done"
            /\ inst'[i].calls = inst[i].calls
            /\ inst'[i].execs = inst[i].execs
            /\ inst'[i].result = inst[i].result
       /\ \A op \in DecodeOps :
            (op \in inst[i].waiting /\ op \notin inst'[i].waiting
               /\ DecodeFails(inst[i], op)) =>
              /\ lastResult'.op = op
              /\ lastResult'.settled = "fulfilled"
              /\ lastResult'.tuple.value = Null
              /\ lastResult'.tuple.error.kind = "error"
              /\ lastResult'.tuple.error.name \in {"SyntaxError", "TypeError"}]_vars

\* text() failed on a body an earlier decoder had consumed; retries were
\* configured, and the transport was still called once
C18_Witness ==
  /\ lastResult.op = "text"
  /\ lastResult.via = "instance"
  /\ lastResult.tuple = Tuple(Null, PlainError("TypeError"))
  /\ inst[Root].result.error = Null
  /\ inst[Root].bodyUsed
  /\ inst[Root].retryCount = MaxRetry
  /\ inst[Root].phase = "done"
  /\ inst[Root].calls = 1

\* C19 -- Configured factory merge: in the options of an instance made by
\* the function createNeatFetchInstance(base) returns, the headers are the
\* union of the base and the per-call headers by lower-cased name and the
\* query parameters the union by key, the per-call value winning wherever
\* both have one; timeout and retry are the per-call value when given, else
\* the base value, else absent; and the transport the instance holds, and
\* calls, is the per-call fetchFn, else the base fetchFn, else the default.
C19_FactoryMerge ==
  \A i \in Insts :
    "base" \in DOMAIN inst[i].origin =>
      LET b == inst[i].origin.base
          c == inst[i].origin.config
          o == inst[i].fetchOptions
          bh == Opt(b, "headers", NoHeaders)
          ch == Opt(c, "headers", NoHeaders)
          bp == Opt(b, "params", NoParams)
          cp == Opt(c, "params", NoParams)
          fn == IF "fetchFn" \in DOMAIN c THEN c.fetchFn
                ELSE IF "fetchFn" \in DOMAIN b THEN b.fetchFn
                ELSE "globalThis.fetch"
      IN  /\ DOMAIN o.headers = {Lower(h) : h \in DOMAIN bh \cup DOMAIN ch}
          /\ \A n \in DOMAIN o.headers :
               {o.headers[n]} = IF HeaderValues(ch, n) # {} THEN HeaderValues(ch, n)
                                ELSE HeaderValues(bh, n)
          /\ DOMAIN o.params = DOMAIN bp \cup DOMAIN cp
          /\ \A k \in DOMAIN o.params :
               o.params[k] = IF k \in DOMAIN cp THEN cp[k] ELSE bp[k]
          /\ \A k \in {"timeout", "retry"} :
               o[k] = IF k \in DOMAIN c THEN c[k]
                      ELSE IF k \in DOMAIN b THEN b[k] ELSE 0
          /\ inst[i].timeoutMs = o.timeout
          /\ inst[i].retryCount = o.retry
          /\ inst[i].fetchFn = fn
          /\ inst[i].calls > 0 => inst[i].sent.fetchFn = fn

\* base and per-call options share a header name up to case, a query key and
\* both give a transport and a timeout: the per-call values are in force and
\* the per-call transport was called
C19_Witness ==
  /\ Len(inst) = 1
  /\ "base" \in DOMAIN inst[1].origin
  /\ DOMAIN inst[1].origin.base =
       {"headers", "params", "timeout", "retry", "fetchFn"}
  /\ DOMAIN inst[1].origin.config = {"headers", "params", "timeout", "fetchFn"}
  /\ inst[1].origin.base.headers = RichHeaders
  /\ inst[1].origin.config.headers = [k \in {"authorization"} |-> "Bearer u"]
  /\ inst[1].fetchOptions.headers =
       [k \in {"authorization", "content-type"} |->
          IF k = "authorization" THEN "Bearer u" ELSE "text/plain"]
  /\ inst[1].origin.base.params # inst[1].origin.config.params
  /\ inst[1].fetchOptions.params = inst[1].origin.config.params
  /\ inst[1].origin.base.timeout = TimeoutMs
  /\ inst[1].origin.config.timeout = 0
  /\ inst[1].timeoutMs = 0
  /\ inst[1].retryCount = MaxRetry
  /\ inst[1].origin.base.fetchFn = "fetchA"
  /\ inst[1].origin.config.fetchFn = "fetchB"
  /\ inst[1].calls = 1
  /\ inst[1].sent.fetchFn = "fetchB"

\* C20 (as claimed) -- Retries use exponential backoff: the backoff waits of
\* one execution start at the configured retry delay and each is the previous
\* one times one constant factor greater than 1.
C20_ExponentialBackoff ==
  \A i \in Insts :
    LET b == inst[i].backoffs
    IN  /\ Len(b) >= 1 => b[1] = inst[i].retryDelayMs
        /\ \A k \in 2..Len(b) : b[k] > b[k - 1]
        /\ \A k \in 3..Len(b) : b[k] * b[k - 2] = b[k - 1] * b[k - 1]

\* the query as the claim words it: one pair per element of a sequence value
\* and one per scalar, null values skipped, keys in mapping order
ClaimedPairs(params) ==
  LET pairsOf(key) ==
        IF key \notin DOMAIN params \/ params[key] = Null THEN << >>
        ELSE IF params[key].kind = "array"
        THEN [n \in 1..Len(params[key].vs) |-> <<key, params[key].vs[n]>>]
        ELSE << <<key, params[key].v>> >>
  IN  pairsOf(ParamKeys[1]) \o pairsOf(ParamKeys[2]) \o pairsOf(ParamKeys[3])

\* the base and the target joined as the claim words it
ClaimedJoin(url, base) ==
  IF base = NoUrl \/ (Len(url) > 0 /\ url[1] \in Origins) THEN url
  ELSE (IF Len(base) > 0 /\ base[Len(base)] = Slash
        THEN SubSeq(base, 1, Len(base) - 1) ELSE base)
       \o <<Slash>>
       \o (IF Len(url) > 0 /\ url[1] = Slash THEN SubSeq(url, 2, Len(url)) ELSE url)

\* C21 -- URL composition: the URL an instance is constructed with, and calls
\* the transport with, is: for a relative target with a base URL, the base
\* less exactly one trailing slash, one slash, the target less exactly one
\* leading slash, and otherwise the target (an absolute target ignores the
\* base); serialized as an absolute URL (the resolution of a relative
\* result against the fallback origin is not what the claim is about); then
\* the query pairs, in mapping order, null values skipped, one pair per
\* element of a sequence value and one per scalar.
C21_UrlComposition ==
  \A i \in Insts :
    LET r == inst[i]
        joined == ClaimedJoin(r.url, r.fetchOptions.baseURL)
        absolute ==
          IF Len(joined) > 0 /\ joined[1] \in Origins THEN Href(joined)
          ELSE Resolve(joined)
        pairs == ClaimedPairs(r.fetchOptions.params)
        hasQuery == \E n \in 1..Len(absolute) : absolute[n] = "?"
    IN  /\ Len(r.finalUrl) >= Len(absolute)
        /\ SubSeq(r.finalUrl, 1, Len(absolute)) = absolute
        /\ LET rest == SubSeq(r.finalUrl, Len(absolute) + 1, Len(r.finalUrl))
           IN  /\ pairs = << >> => rest = << >>
               /\ pairs # << >> =>
                    /\ Len(rest) = 4 * Len(pairs)
                    /\ rest[1] = IF hasQuery THEN "&" ELSE "?"
                    /\ \A n \in 1..Len(pairs) :
                         /\ rest[4 * n - 2] = pairs[n][1]
                         /\ rest[4 * n - 1] = "="
                         /\ rest[4 * n] = pairs[n][2]
                         /\ n > 1 => rest[4 * n - 3] = "&"
        /\ r.calls > 0 => r.sent.url = r.finalUrl

\* compose("users", "https://api.test/", {page: 1, tag: [a, b]}) was sent as
\* https://api.test/users?page=1&tag=a&tag=b
C21_Witness ==
  /\ inst[Root].url = <<"users">>
  /\ inst[Root].fetchOptions.baseURL = <<"https://api.test", Slash>>
  /\ inst[Root].fetchOptions.params =
       [k \in {"page", "tag"} |->
          IF k = "page" THEN Scalar("1") ELSE Array(<<"a", "b">>)]
  /\ inst[Root].calls = 1
  /\ inst[Root].sent.url =
       <<"https://api.test", Slash, "users", "?", "page", "=", "1",
         "&", "tag", "=", "a", "&", "tag", "=", "b">>

\* the response a fromResponse step decodes, and whether its body was read
HandedResponse ==
  IF lastResult.tuple.value.kind = "response"
  THEN [resp |-> lastResult.tuple.value, used |-> inst[lastResult.inst].bodyUsed]
  ELSE [resp |-> lastResult.tuple.error.response,
        used |-> inst[lastResult.inst].cloneUsed]

\* what the instance operation op yields for an execution that succeeded
\* with the response resp
InstanceYields(i, resp, used, op) ==
  ResultOf([inst[i] EXCEPT !.result = Tuple(resp, Null), !.bodyUsed = used], op)

\* C22 -- fromResponse decoders: every step of fromResponse(r).op(), for each
\* of json, text, blob, arrayBuffer, formData, leaves the execution alone (no
\* transport invocation), resolves (a decoding failure is in the error slot),
\* and resolves to the tuple the instance operation op yields for an
\* execution that succeeded with r.
C22_FromResponseAsInstance ==
  [][ (lastResult' # lastResult /\ lastResult'.via = "fromResponse") =>
        LET i == lastResult'.inst
            h == HandedResponse
        IN  /\ inst'[i].calls = inst[i].calls
            /\ inst'[i].phase = inst[i].phase
            /\ lastResult'.settled = "fulfilled"
            /\ lastResult'.tuple = InstanceYields(i, h.resp, h.used, lastResult'.op).tuple
    ]_vars

C24_SequentialAttempts ==
  [][\A i \in Insts :
       /\ inst'[i].inflight <= 1
       /\ (i <= Len(inst) /\ inst'[i].calls # inst[i].calls) =>
            /\ inst'[i].calls = inst[i].calls + 1
            /\ inst[i].inflight = 0
            /\ inst'[i].inflight = 1
            /\ \/ inst[i].calls = 0 /\ inst[i].phase = "idle"
               \/ /\ inst[i].calls > 0
                  /\ inst[i].phase = "backoff"
                  /\ inst[i].wait > 0
                  /\ Len(inst[i].backoffs) = inst[i].calls
                  /\ RetryableOutcome(inst[i].last)
                  /\ inst[i].last.kind = "http" =>
                       (ClaimedWait(inst[i].last.resp) > 0)
                         = (inst[i].slept = <<"retryAfter">>)
                  /\ inst[i].last.kind = "error" => inst[i].slept = << >>
    ]_vars

\* two consumers wait on one instance whose second attempt is in flight, the
\* first having been answered 429 with a Retry-After that was slept
C24_Witness ==
  /\ Cardinality(inst[Root].waiting) = 2
  /\ inst[Root].calls = 2
  /\ inst[Root].inflight = 1
  /\ inst[Root].last.kind = "http"
  /\ inst[Root].last.resp.status = 429
  /\ inst[Root].last.resp.ra.kind = "seconds"
  /\ inst[Root].last.resp.ra.n = RetryAfterSec

\* the terminal states of an execution
Success(r) == r.phase = "done" /\ r.result.value # Null /\ r.result.error = Null
Failed(r) == r.phase = "done" /\ r.result.value = Null /\ r.result.error # Null

\* C25 -- Termination: when every transport call settles and every sleep
\* ends, an execution that was started eventually is in Success or Failed;
\* and an execution in Success or Failed stays there, with the same result
\* and without another transport call.
C25_Terminates ==
  /\ \A i \in 1..MaxInst :
       (i \in Insts /\ inst[i].execs > 0)
         ~> (i \in Insts /\ (Success(inst[i]) \/ Failed(inst[i])))
  /\ [][\A i \in Insts :
          inst[i].phase = "done" =>
            /\ Success(inst[i]) \/ Failed(inst[i])
            /\ inst'[i].phase = "done"
            /\ inst'[i].result = inst[i].result
            /\ inst'[i].calls = inst[i].calls
            /\ inst'[i].executionPromise = "fulfilled"]_vars

\* an execution with a timeout that used its whole retry budget on failing
\* attempts is Failed, and that result was delivered to the consumer
C25_Witness ==
  /\ Failed(inst[Root])
  /\ inst[Root].retryCount = MaxRetry
  /\ inst[Root].calls = MaxRetry + 1
  /\ inst[Root].timeoutMs = TimeoutMs
  /\ lastResult.inst = Root
  /\ lastResult.tuple = inst[Root].result

\* C26 -- The result of an execution is that of its last attempt: an attempt
\* answered with a success status (response.ok) ends the execution at once
\* with that response in the value slot and an empty error slot, whatever
\* failed before; an execution that ends otherwise ends with the error of the
\* attempt that settled last (its response and status, or the transport
\* error's name); and no transport call follows the end.
C26_LastAttemptDecides ==
  [][\A i \in Insts :
       LET o == inst'[i].last
           success == o.kind = "http" /\ o.resp.status >= 200 /\ o.resp.status <= 299
       IN  /\ (inst[i].inflight = 1 /\ inst'[i].inflight = 0 /\ success) =>
                inst'[i].phase = "done"
           /\ (inst[i].phase # "done" /\ inst'[i].phase = "done") =>
                /\ inst'[i].calls = inst[i].calls
                /\ IF success THEN inst'[i].result = Tuple(o.resp, Null)
                   ELSE /\ inst'[i].result.value = Null
                        /\ o.kind = "http" =>
                             /\ inst'[i].result.error.response = o.resp
                             /\ inst'[i].result.error.status = o.resp.status
                        /\ o.kind = "error" =>
                             inst'[i].result.error = PlainError(o.name)
           /\ inst[i].phase = "done" =>
                /\ inst'[i].calls = inst[i].calls
                /\ inst'[i].result = inst[i].result
    ]_vars

\* two attempts failed and were backed off, the third was answered 200: the
\* execution ended with that response and no error
C26_Witness ==
  /\ inst[Root].phase = "done"
  /\ inst[Root].calls = 3
  /\ Len(inst[Root].backoffs) = 2
  /\ inst[Root].retryCount = MaxBackoffs
  /\ inst[Root].result = Tuple(Resp(200, NoRA, FALSE, "good"), Null)

\* C27 (as claimed) -- the timeout trigger of an attempt is cleared when the
\* attempt settles, by a response or by a failure: a trigger is armed only
\* while its attempt is in flight, so none is left armed during a Retry-After
\* or backoff sleep, while a later attempt runs, or after the execution ended.
C27_TimerClearedOnSettle ==
  \A i \in Insts :
    /\ inst[i].timer = "armed" => inst[i].phase = "fetching"
    /\ inst[i].stale = 0

\* C28 (as claimed) -- Body serialization policy of post / put / patch, read
\* off the request the verb sends: an absent payload gives no body, a payload
\* that is a body kind (form data, blob, byte buffer, URL-encoded params,
\* string) is the body unchanged, and in both cases no Content-Type is added
\* to what the receiver configured; any other payload is sent JSON-encoded,
\* with content-type application/json when the receiver configured no
\* Content-Type in any letter case, and with the receiver's own Content-Type
\* when it configured one.
C28_BodyPolicy ==
  \A i \in Insts :
    (inst[i].origin.verb \in BodyVerbs /\ inst[i].calls > 0) =>
      LET data == inst[i].origin.data
          own == HeaderValues(inst[inst[i].origin.parent].fetchOptions.headers,
                              "content-type")
          carried == HeaderValues(inst[i].sent.headers, "content-type")
      IN  IF data = "null"
          THEN inst[i].sent.body = "none" /\ carried \subseteq own
          ELSE IF data \in {"formData", "blob", "arrayBuffer", "urlSearchParams",
                            "string"}
          THEN inst[i].sent.body = data /\ carried \subseteq own
          ELSE /\ inst[i].sent.body = "json"
               /\ carried = IF own = {} THEN {"application/json"} ELSE own

\* C29 -- Composed request is fixed per instance: the URL and the options
\* derived at construction never change, the first transport call of an
\* execution receives them, and every retry receives the URL and the options
\* the call before it received, the cancellation signal left aside.
C29_RequestFixed ==
  [][\A i \in Insts :
       /\ inst'[i].finalUrl = inst[i].finalUrl
       /\ inst'[i].requestInit = inst[i].requestInit
       /\ inst'[i].calls # inst[i].calls =>
            /\ inst'[i].sent.url = inst[i].finalUrl
            /\ inst'[i].sent.method = inst[i].requestInit.method
            /\ inst'[i].sent.body = inst[i].requestInit.body
            /\ inst'[i].sent.headers = inst[i].requestInit.headers
            /\ inst[i].calls > 0 =>
                 [inst'[i].sent EXCEPT !.signal = "any"]
                   = [inst[i].sent EXCEPT !.signal = "any"]
    ]_vars

\* the third transport call of one execution is in flight, with the URL and
\* the headers the instance was constructed with
C29_Witness ==
  /\ inst[Root].calls = 3
  /\ inst[Root].phase = "fetching"
  /\ inst[Root].sent.url = UsersUrl
  /\ inst[Root].sent.headers = inst[Root].fetchOptions.headers
  /\ inst[Root].sent.method = "GET"

====
